---- MODULE Spec2Model ----
(***************************************************************************)
(* A model of the retry orchestrator: retry(), executeAttempt(),           *)
(* calculateDelay(), waitForDelay() and the helpers they use.              *)
(*                                                                         *)
(* One session of retry() is an async function.  It runs synchronously up  *)
(* to an `await`, and its continuation runs later as a promise job.  The   *)
(* model has one action per synchronous run of the session (Start,         *)
(* ResumeAttempt, ResumePredicate, ResumeDelay) and one action per event   *)
(* of the environment that settles a promise the session is waiting for    *)
(* (WorkSettle, AttemptTimerFire, DelayTimerFire, Abort).  Promise.race is *)
(* settled by the first racer that settles; racers settled later in the    *)
(* same or a later turn do not change it.                                  *)
(***************************************************************************)
EXTENDS Integers, Sequences, FiniteSets, TLC

\* ------------------------------------------------------------------ bounds
MaxRetries == 2          \* largest `retries` option explored
RandDen == 2             \* Math.random() is drawn from {0/RandDen .. (RandDen-1)/RandDen}

\* ------------------------------------------------------------ error values
\* An error object: its class name, its message tag, and its numeric
\* status-like fields.  A field is a set: {} when the field is absent or not
\* a number, {n} when it holds the number n.
ErrorObj(name, msg, statusCode, status, code, respStatus) ==
    [name |-> name, msg |-> msg, statusCode |-> statusCode, status |-> status,
     code |-> code, respStatus |-> respStatus]

LibError(name, msg) == ErrorObj(name, msg, {}, {}, {}, {})

AbortError(msg) == LibError("AbortError", msg)
TimeoutError == LibError("TimeoutError", "Attempt timed out")
FalsyResultError == LibError("FalsyResultError", "Result was considered falsy.")

\* errors raised by the caller's code
HttpError(sc) == ErrorObj("Error", "HTTP", {sc}, {}, {}, {})
AbortedBySignal == LibError("Error", "Aborted by signal")
PredicateError == LibError("Error", "shouldRetry failed")
FalsyPredicateError == LibError("Error", "retryOnFalsy failed")

\* error objects of every shape getStatusCode tells apart, with codes on both
\* sides of the two ends of the 5xx range
ErrorSamples ==
    {ErrorObj(name, "HTTP", statusCode, status, code, respStatus) :
        name \in {"Error", "TimeoutError", "FalsyResultError", "AbortError"},
        statusCode \in {{}, {404}, {503}},
        status \in {{}, {499}, {500}},
        code \in {{}, {599}, {600}},
        respStatus \in {{}, {503}}}

\* mutant: `status` is looked at before `statusCode`
getStatusCodeStatusFirst(error) ==
    IF error.status # {} THEN error.status
    ELSE IF error.statusCode # {} THEN error.statusCode
    ELSE IF error.code # {} THEN error.code
    ELSE IF error.respStatus # {} THEN error.respStatus
    ELSE {}

getStatusCode(error) ==
    IF error.statusCode # {} THEN error.statusCode
    ELSE IF error.status # {} THEN error.status
    ELSE IF error.code # {} THEN error.code
    ELSE IF error.respStatus # {} THEN error.respStatus
    ELSE {}

\* mutant: a timed-out attempt is not retried
defaultShouldRetryNoTimeout(error) ==
    \/ \E statusCode \in getStatusCode(error) : statusCode >= 500 /\ statusCode < 600
    \/ error.name \in {"FalsyResultError"}

defaultShouldRetry(error) ==
    \/ \E statusCode \in getStatusCode(error) : statusCode >= 500 /\ statusCode < 600
    \/ error.name \in {"TimeoutError", "FalsyResultError"}

\* ----------------------------------------------------------- result values
\* Abstract JavaScript values a unit of work can produce.
Val == {"undefined", "null", "false", "emptyArray", "object"}

\* What the work's promise resolves with.  keyed = TRUE is an object that has
\* a `data` or an `error` key; its missing key reads as undefined.  The error
\* field is {} when falsy and {e} when it holds the error e.
BareResult(v) == [keyed |-> FALSE, data |-> v, error |-> {}]
Wrapper(data, error) == [keyed |-> TRUE, data |-> data, error |-> error]

\* mutant: only the boolean form is honoured, a function is never called
checkAndThrowFalsyBooleanOnly(result, retryOnFalsy) ==
    IF retryOnFalsy = "true" /\ result \in {"undefined", "null"}
    THEN {FalsyResultError} ELSE {}

\* checkAndThrowFalsy: the set of errors it throws ({} when it returns).
\* retryOnFalsy is false, true, or a function; two functions are modelled:
\* value => Array.isArray(value) && value.length === 0, and one that throws.
checkAndThrowFalsy(result, retryOnFalsy) ==
    IF retryOnFalsy = "throws" THEN {FalsyPredicateError}
    ELSE LET shouldRetryOnValue ==
                 IF retryOnFalsy = "isEmptyArray" THEN result = "emptyArray"
                 ELSE IF retryOnFalsy = "true" THEN result \in {"undefined", "null"}
                 ELSE FALSE
         IN IF shouldRetryOnValue THEN {FalsyResultError} ELSE {}

\* The outcome of an attempt: ok with a value, or failed with an error.
Success(v) == [ok |-> TRUE, value |-> v, error |-> {}]
Failure(e) == [ok |-> FALSE, value |-> "undefined", error |-> {e}]

\* mutant: the value is checked before the error field is looked at
NormalizeFalsyFirst(result, retryOnFalsy) ==
    LET thrown == checkAndThrowFalsy(result.data, retryOnFalsy)
    IN IF thrown # {} THEN Failure(CHOOSE e \in thrown : TRUE)
       ELSE IF result.keyed /\ result.error # {}
       THEN Failure(CHOOSE e \in result.error : TRUE)
       ELSE Success(result.data)

\* mutant: an object with a data or error key is returned whole
NormalizeWhole(result, retryOnFalsy) ==
    IF result.keyed /\ result.error # {} THEN Failure(CHOOSE e \in result.error : TRUE)
    ELSE LET value == IF result.keyed THEN "object" ELSE result.data
             thrown == checkAndThrowFalsy(value, retryOnFalsy)
         IN IF thrown # {} THEN Failure(CHOOSE e \in thrown : TRUE)
            ELSE Success(value)

\* executeAttempt after the race resolved with `result`.
Normalize(result, retryOnFalsy) ==
    IF result.keyed
    THEN IF result.error # {} THEN Failure(CHOOSE e \in result.error : TRUE)
         ELSE LET thrown == checkAndThrowFalsy(result.data, retryOnFalsy)
              IN IF thrown # {} THEN Failure(CHOOSE e \in thrown : TRUE)
                 ELSE Success(result.data)
    ELSE LET thrown == checkAndThrowFalsy(result.data, retryOnFalsy)
         IN IF thrown # {} THEN Failure(CHOOSE e \in thrown : TRUE)
            ELSE Success(result.data)

\* ----------------------------------------------------------------- backoff
Min(a, b) == IF a <= b THEN a ELSE b

\* min(x * 2^n, cap) for naturals, computed without leaving the range
\* 0 .. 2 * cap: doubling stops as soon as the cap is reached
RECURSIVE MinScaled(_, _, _)
MinScaled(x, n, cap) ==
    IF x = 0 THEN 0
    ELSE IF n = 0 \/ x >= cap THEN Min(x, cap)
    ELSE MinScaled(2 * x, n - 1, cap)

\* numbers are IEEE-754 doubles: `2 ** n` is Infinity from this n on
DoubleMaxExponent == 1024

\* the value NaN, which is neither >= 0 nor <= anything
NaN == -1

\* Math.min(delay * 2 ** n, maxDelay): Infinity times 0 is NaN and Math.min
\* of NaN is NaN; Infinity times a positive delay is Infinity
minScaledDouble(delay, n, maxDelay) ==
    IF n >= DoubleMaxExponent
    THEN IF delay = 0 THEN NaN ELSE maxDelay
    ELSE MinScaled(delay, n, maxDelay)

\* mutant: the exponent is the attempt number
calculateDelayZeroBased(delay, maxDelay, jitter, attempt, r) ==
    LET wait == minScaledDouble(delay, attempt, maxDelay)
    IN IF wait = NaN THEN NaN
       ELSE IF jitter = "full" THEN (r * wait) \div RandDen
       ELSE IF jitter = "equal" THEN (wait * RandDen + r * wait) \div (2 * RandDen)
       ELSE wait

\* calculateDelay with Math.random() = r / RandDen; Math.floor is the integer
\* division, and every operation on NaN gives NaN.
calculateDelay(delay, maxDelay, jitter, attempt, r) ==
    LET wait == minScaledDouble(delay, attempt - 1, maxDelay)
    IN IF wait = NaN THEN NaN
       ELSE IF jitter = "full" THEN (r * wait) \div RandDen
       ELSE IF jitter = "equal" THEN (wait * RandDen + r * wait) \div (2 * RandDen)
       ELSE wait

\* ------------------------------------------------------------ input samples
\* what a unit of work can resolve with, and reject or throw with
WorkResults ==
    {BareResult("object"), BareResult("null"), BareResult("emptyArray"),
     Wrapper("object", {}), Wrapper("null", {}), Wrapper("object", {HttpError(503)})}

\* the policies explored: RetryOptions
\* every combination of retries, predicate, signal, deadline and hook; the
\* jitter modes, the retryOnFalsy modes and the zero deadline are each varied
\* with the other two at their plainest
Policies ==
    {p \in [retries : 0 .. MaxRetries,
            delay : {100},
            maxDelay : {150},
            jitter : {"none", "full", "equal"},
            shouldRetry : {"default", "custom"},
            retryOnFalsy : {"false", "true", "isEmptyArray", "throws"},
            hasSignal : BOOLEAN,
            attemptTimeout : {{}, {0}, {1000}},
            onRetry : {"absent", "present"}] :
        /\ p.jitter # "none" => p.retryOnFalsy = "false" /\ p.attemptTimeout = {}
        /\ p.retryOnFalsy # "false" => p.onRetry = "absent"
        /\ p.attemptTimeout = {0} => p.retryOnFalsy = "false"}

\* the attempts of the flaky scenario: testFlakyAPI's `retries: 3`
FlakyRetries == 3

Attempts == 1 .. ((IF MaxRetries > FlakyRetries THEN MaxRetries ELSE FlakyRetries) + 1)

\* ------------------------------------------------------------------- state
VARIABLES
    options,     \* the RetryOptions of the session
    pc,          \* where the async function retry() stands
    i,           \* the loop index of retry()
    errors,      \* retry(): the accumulated failure list
    outcome,     \* what the latest executeAttempt call produced
    result,      \* the value retry() resolved with (meaningful when pc = "done")
    aborted,     \* options.signal.aborted
    sig,         \* per attempt: state of attemptController.signal
    work,        \* per attempt: state of the promise fn() returned
    reacts,      \* per attempt: the work rejects when its attemptSignal aborts
    race,        \* executeAttempt: Promise.race(racers)
    atimer,      \* executeAttempt: attemptTimer
    alistener,   \* executeAttempt: globalAbortListener is registered
    drace,       \* waitForDelay: the awaited race (or delayPromise)
    dtimer,      \* waitForDelay: delayTimer
    dlistener,   \* waitForDelay: delayAbortListener is registered
    delayMs,     \* waitForDelay: the duration of the armed delayTimer
    calls,       \* number of invocations of fn
    predCalls,   \* number of invocations of shouldRetry
    hookCalls,   \* number of invocations of onRetry
    waits,       \* number of calls of waitForDelay
    exit,        \* which return statement of retry() ended the session
    abortedAt,   \* what the session was doing when the signal was triggered
    log,         \* the calls the session made and what they produced, in order
    arg,         \* input of a helper function applied on its own ({} when none)
    ret          \* what that helper function returned ({} when not applied)

vars == <<options, pc, i, errors, outcome, result, aborted, sig, work, reacts,
          race, atimer, alistener, drace, dtimer, dlistener, delayMs,
          calls, predCalls, hookCalls, waits, exit, abortedAt, log, arg, ret>>

\* what a unit of work can reject or throw with: two HTTP errors, or the
\* error under examination when there is one
WorkErrors == IF arg = {} THEN {HttpError(503), HttpError(404)} ELSE arg

\* an entry of the log: fn invoked ("fn"), executeAttempt returned ("ok") or
\* threw ("fail"), shouldRetry invoked ("pred") and what it answered
\* ("answer"), onRetry invoked ("hook"), waitForDelay called ("wait")
Event(ev, attempt, error, delay, answer) ==
    [ev |-> ev, attempt |-> attempt, error |-> error, delay |-> delay,
     answer |-> answer]

\* a promise: pending, resolved with a result, or rejected with an error
Pending == [st |-> "pending", res |-> BareResult("undefined"), err |-> {}]
Resolved(res) == [st |-> "resolved", res |-> res, err |-> {}]
Rejected(e) == [st |-> "rejected", res |-> BareResult("undefined"), err |-> {e}]

\* mutant: the racer that settles last decides
SettleLast(p, settlement) == settlement

\* Promise.race: the first racer to settle decides
Settle(p, settlement) == IF p.st = "pending" THEN settlement ELSE p

\* the two shapes of RetryPromiseResult; errors is {} for null, {list} else
\* mutant: the success result reports the loop index i instead of i + 1
RetrySuccessLoopIndex(data, attempts) ==
    [data |-> data, errors |-> {}, attempts |-> attempts - 1]
RetrySuccess(data, attempts) == [data |-> data, errors |-> {}, attempts |-> attempts]
\* mutant: the failure result reports the loop index i instead of i + 1
RetryFailureLoopIndex(errs, attempts) ==
    [data |-> "null", errors |-> {errs}, attempts |-> attempts - 1]
RetryFailure(errs, attempts) == [data |-> "null", errors |-> {errs}, attempts |-> attempts]
NoOutcome == [ok |-> FALSE, value |-> "undefined", error |-> {}]

\* mutant: any attemptTimeout that is given sets a deadline, 0 too
HasTimeoutIfGiven == options.attemptTimeout # {}

\* `if (attemptTimeout)`: undefined and 0 are falsy
HasTimeout == \E t \in options.attemptTimeout : t # 0

InitSession(policies) ==
    /\ options \in policies
    /\ pc = "init"
    /\ i = 0
    /\ errors = <<>>
    /\ outcome = NoOutcome
    /\ result = RetryFailure(<<>>, 0)
    /\ aborted \in {a \in BOOLEAN : a => options.hasSignal}
    /\ sig = [k \in Attempts |-> "none"]
    /\ work = [k \in Attempts |-> "idle"]
    /\ reacts = [k \in Attempts |-> FALSE]
    /\ race = Pending
    /\ atimer = "none"
    /\ alistener = FALSE
    /\ drace = Pending
    /\ dtimer = "none"
    /\ dlistener = FALSE
    /\ delayMs = 0
    /\ calls = 0
    /\ predCalls = 0
    /\ hookCalls = 0
    /\ waits = 0
    /\ exit = "none"
    /\ abortedAt = IF aborted THEN "before" ELSE "never"
    /\ log = <<>>

\* a session on its own
Init ==
    /\ InitSession(Policies)
    /\ arg = {}
    /\ ret = {}

\* mutant: `retries` read as the number of re-tries after the first attempt
maxAttemptsPlusOne == options.retries + 1

\* `retries` as destructured from the options: the loop bound of retry()
maxAttempts == options.retries

\* retry() returns `r` from the return statement `path`, its failure list
\* being `errs`
Return(r, errs, path) ==
    /\ pc' = "done"
    /\ result' = r
    /\ errors' = errs
    /\ exit' = path

\* attemptController.abort() for attempt k: the signal becomes aborted and a
\* work that listens to it rejects its promise in the same run
WorkAfterAbort(k) ==
    IF sig[k] = "live" /\ work[k] = "pending" /\ reacts[k]
    THEN [work EXCEPT ![k] = "rejectedOnAbort"] ELSE work

\* mutant: the finally block leaves the attempt's signal as it is
finallyNoAbort(k) == sig

\* the finally block of executeAttempt: attemptController.abort()
finallyAbort(k) == [sig EXCEPT ![k] = "aborted"]
WorkRejectsOnAbort(k) == sig[k] = "live" /\ work[k] = "pending" /\ reacts[k]

\* executeAttempt(fn, attempt, options) up to its `await Promise.race(racers)`.
\* fn either throws in the call (the finally block then runs at once and the
\* promise of executeAttempt is rejected with what fn threw), or returns a
\* promise; fn may also trigger the operation-wide signal while it runs.
executeAttempt(attempt) ==
    /\ calls' = calls + 1
    /\ log' = Append(log, Event("fn", attempt, {}, 0, ""))
    /\ pc' = "attempt"
    /\ \/ \E e \in WorkErrors :
            /\ race' = Rejected(e)
            /\ sig' = [sig EXCEPT ![attempt] = "aborted"]
            /\ work' = [work EXCEPT ![attempt] = "threw"]
            /\ UNCHANGED <<reacts, atimer, alistener, aborted, abortedAt>>
       \/ \E listens \in BOOLEAN, abortsNow \in {b \in BOOLEAN : b => options.hasSignal} :
            /\ sig' = [sig EXCEPT ![attempt] = "live"]
            /\ work' = [work EXCEPT ![attempt] = "pending"]
            /\ reacts' = [reacts EXCEPT ![attempt] = listens]
            /\ aborted' = (aborted \/ abortsNow)
            /\ abortedAt' = IF abortsNow /\ ~aborted THEN "call" ELSE abortedAt
            /\ atimer' = IF HasTimeout THEN "armed" ELSE "none"
            /\ IF options.hasSignal /\ aborted'
               THEN /\ race' = Rejected(AbortError("Operation aborted."))
                    /\ alistener' = FALSE
               ELSE /\ race' = Pending
                    /\ alistener' = options.hasSignal

\* mutant: the loop does not look at the operation-wide signal
precheckNever == FALSE

\* retry(): `signal?.aborted` at the top of the loop body
precheck == options.hasSignal /\ aborted

\* mutant: the pre-attempt check returns without recording the cancellation
precheckReturnSilent(j) == Return(RetryFailure(errors, j), errors, "precheck")

\* retry(): the return of the pre-attempt check
precheckReturn(j) ==
    Return(RetryFailure(Append(errors, AbortError("The operation was aborted.")), j),
           Append(errors, AbortError("The operation was aborted.")), "precheck")

\* mutant: the attempt number lags one behind from the second iteration on
attemptNumberLoopIndex(j) == IF j = 0 THEN 1 ELSE j

\* retry(): `executeAttempt(fn, i + 1, options)`: the attempt number of loop
\* index j
attemptNumber(j) == j + 1

\* mutant: the loop body runs once more than `retries` allows
loopConditionInclusive(j) == j <= maxAttempts

\* retry(): `i < retries`, the condition of the for loop
loopCondition(j) == j < maxAttempts

\* retry(): the for loop from its top with loop index j, up to the first await
EnterIteration(j) ==
    /\ i' = j
    /\ IF ~loopCondition(j)
       THEN /\ Return(RetryFailure(errors, maxAttempts), errors, "exhausted")
            /\ UNCHANGED <<aborted, abortedAt, sig, work, reacts, race, atimer,
                           alistener, calls, log>>
       ELSE IF precheck
       THEN /\ precheckReturn(j)
            /\ UNCHANGED <<aborted, abortedAt, sig, work, reacts, race, atimer,
                           alistener, calls, log>>
       ELSE /\ executeAttempt(attemptNumber(j))
            /\ UNCHANGED <<result, errors, exit>>

\* retry(fn, options) is called
Start ==
    /\ pc = "init"
    /\ EnterIteration(0)
    /\ UNCHANGED <<options, arg, ret, outcome, drace, dtimer, dlistener, delayMs,
                   predCalls, hookCalls, waits>>

\* the promise fn returned for attempt k settles by itself
WorkSettle(k) ==
    /\ work[k] = "pending"
    /\ work' = [work EXCEPT ![k] = "settled"]
    /\ \E settlement \in {Resolved(r) : r \in WorkResults} \cup {Rejected(e) : e \in WorkErrors} :
          race' = IF pc = "attempt" /\ k = i + 1 THEN Settle(race, settlement) ELSE race
    /\ UNCHANGED <<options, arg, ret, log, pc, i, errors, outcome, result, aborted, sig, reacts,
                   atimer, alistener, drace, dtimer, dlistener, delayMs,
                   calls, predCalls, hookCalls, waits, exit, abortedAt>>

\* the attemptTimer callback: attemptController.abort(), then reject(TimeoutError)
AttemptTimerFire ==
    /\ atimer = "armed"
    /\ atimer' = "fired"
    /\ sig' = [sig EXCEPT ![i + 1] = "aborted"]
    /\ work' = WorkAfterAbort(i + 1)
    /\ race' = Settle(IF WorkRejectsOnAbort(i + 1)
                      THEN Settle(race, Rejected(AbortedBySignal)) ELSE race,
                      Rejected(TimeoutError))
    /\ UNCHANGED <<options, arg, ret, log, pc, i, errors, outcome, result, aborted, reacts,
                   alistener, drace, dtimer, dlistener, delayMs,
                   calls, predCalls, hookCalls, waits, exit, abortedAt>>

\* the operation-wide signal is triggered: its 'abort' listeners run once.
\* globalAbortListener: attemptController.abort(), then reject(AbortError);
\* delayAbortListener: reject(AbortError).
Abort ==
    /\ options.hasSignal
    /\ ~aborted
    /\ pc # "init"
    /\ aborted' = TRUE
    /\ abortedAt' = IF pc = "attempt" /\ race.st = "pending" THEN "attempt"
                    ELSE IF pc = "delay" /\ drace.st = "pending" THEN "delay"
                    ELSE "other"
    /\ IF alistener
       THEN /\ alistener' = FALSE
            /\ sig' = [sig EXCEPT ![i + 1] = "aborted"]
            /\ work' = WorkAfterAbort(i + 1)
            /\ race' = Settle(IF WorkRejectsOnAbort(i + 1)
                              THEN Settle(race, Rejected(AbortedBySignal)) ELSE race,
                              Rejected(AbortError("Operation aborted.")))
       ELSE UNCHANGED <<alistener, sig, work, race>>
    /\ IF dlistener
       THEN /\ dlistener' = FALSE
            /\ drace' = Settle(drace, Rejected(AbortError("Delay aborted.")))
       ELSE UNCHANGED <<dlistener, drace>>
    /\ UNCHANGED <<options, arg, ret, log, pc, i, errors, outcome, result, reacts, atimer,
                   dtimer, delayMs, calls, predCalls, hookCalls, waits, exit>>

\* mutant: the timer is left as it is
clearTimeoutSkipped(timer) == timer

\* clearTimeout(attemptTimer), clearTimeout(delayTimer): a timer that has not
\* fired will not fire any more
clearTimeout(timer) == "none"

\* signal.removeEventListener('abort', listener): the listener is no longer
\* registered
removeEventListener(registered) == FALSE

\* mutant: only the latest failure is kept
pushOnlyLast(errs, e) == <<e>>

\* errors.push(err)
push(errs, e) == Append(errs, e)

\* mutant: the failures of earlier attempts are reported next to the data
successReturnWithErrors(value) ==
    Return([RetrySuccess(value, i + 1) EXCEPT !.errors = {errors}], errors, "success")

\* retry(): `return { data, errors: null, attempts: i + 1 }`
successReturn(value) == Return(RetrySuccess(value, i + 1), errors, "success")

\* mutant: the loop index is reported instead of the number of attempts
exhaustedReturnLoopIndex(errs) == Return(RetryFailure(errs, i), errs, "exhausted")

\* retry(): the return after the loop, `attempts: retries`
exhaustedReturn(errs) == Return(RetryFailure(errs, maxAttempts), errs, "exhausted")

\* mutant: the loop does not break after the last attempt's failure
lastAttemptNever == FALSE

\* retry(): `if (i === retries - 1) break`
lastAttempt == i = maxAttempts - 1

\* executeAttempt resumes after its race settled: result normalization, the
\* finally block, and then retry() resumes after `await executeAttempt(...)`
\* up to `await shouldRetry(...)`
ResumeAttempt ==
    /\ pc = "attempt"
    /\ race.st # "pending"
    /\ LET out == IF race.st = "resolved"
                  THEN Normalize(race.res, options.retryOnFalsy)
                  ELSE Failure(CHOOSE e \in race.err : TRUE)
           errs == push(errors, CHOOSE e \in out.error : TRUE)
           settled == Append(log, Event(IF out.ok THEN "ok" ELSE "fail", i + 1,
                                        out.error, 0, ""))
       IN /\ outcome' = out
          /\ atimer' = clearTimeout(atimer)
          /\ alistener' = removeEventListener(alistener)
          /\ sig' = finallyAbort(i + 1)
          /\ work' = WorkAfterAbort(i + 1)
          /\ race' = Pending
          /\ IF out.ok
             THEN /\ successReturn(out.value)
                  /\ log' = settled
                  /\ UNCHANGED predCalls
             ELSE IF lastAttempt
             THEN /\ exhaustedReturn(errs)
                  /\ log' = settled
                  /\ UNCHANGED predCalls
             ELSE /\ pc' = "pred"
                  /\ errors' = errs
                  /\ predCalls' = predCalls + 1
                  /\ log' = Append(settled, Event("pred", i + 1, out.error, 0, ""))
                  /\ UNCHANGED <<result, exit>>
    /\ UNCHANGED <<options, arg, ret, i, aborted, abortedAt, reacts, drace, dtimer, dlistener,
                   delayMs, calls, hookCalls, waits>>

\* mutant: the interrupted wait ends the session without being recorded
delayAbortedReturnSilent(e) == Return(RetryFailure(errors, i + 1), errors, "delayAborted")

\* retry(): `catch (delayAbortErr)`: push it and return
delayAbortedReturn(e) ==
    Return(RetryFailure(Append(errors, e), i + 1), Append(errors, e), "delayAborted")

\* waitForDelay(delay, signal) up to its await; when the signal is already
\* aborted it throws and retry() returns from `catch (delayAbortErr)`
waitForDelay(delay) ==
    /\ waits' = waits + 1
    /\ IF options.hasSignal /\ aborted
       THEN /\ delayAbortedReturn(AbortError("Delay aborted."))
            /\ UNCHANGED <<drace, dtimer, dlistener, delayMs>>
       ELSE /\ pc' = "delay"
            /\ drace' = Pending
            /\ dtimer' = "armed"
            /\ delayMs' = delay
            /\ dlistener' = options.hasSignal
            /\ UNCHANGED <<result, errors, exit>>

\* the answers shouldRetry can give for an error: "true", "false" or "throw"
ShouldRetryAnswers(error) ==
    IF options.shouldRetry = "default"
    THEN {IF defaultShouldRetry(error) THEN "true" ELSE "false"}
    ELSE {"true", "false", "throw"}

\* mutant: the wait is started before onRetry is called
waitThenHook(attempt, error, delay) ==
    <<Event("wait", attempt, {}, delay, "")>> \o
    (IF options.onRetry = "present"
     THEN <<Event("hook", attempt, error, delay, "")>> ELSE <<>>)

\* mutant: onRetry is told a delay drawn anew, the lowest the jitter allows
hookRedrawnThenWait(attempt, error, delay) ==
    (IF options.onRetry = "present"
     THEN <<Event("hook", attempt, error,
                  calculateDelay(options.delay, options.maxDelay, options.jitter,
                                 attempt, 0), "")>>
     ELSE <<>>) \o
    <<Event("wait", attempt, {}, delay, "")>>

\* retry(): `onRetry?.(i + 1, err, delay)` and then `await waitForDelay(delay, signal)`
hookThenWait(attempt, error, delay) ==
    (IF options.onRetry = "present"
     THEN <<Event("hook", attempt, error, delay, "")>> ELSE <<>>) \o
    <<Event("wait", attempt, {}, delay, "")>>

\* mutant: the predicate's exception is swallowed and the retry goes unrecorded
predicateThrewReturnSilent ==
    Return(RetryFailure(errors, i + 1), errors, "predicateThrew")

\* retry(): `catch (shouldRetryErr)`: push it and return
predicateThrewReturn ==
    Return(RetryFailure(Append(errors, PredicateError), i + 1),
           Append(errors, PredicateError), "predicateThrew")

\* mutant: a refused retry is reported as if every attempt had been used
predicateFalseReturnAll == Return(RetryFailure(errors, maxAttempts), errors, "predicateFalse")

\* retry(): `if (!shouldRetryResult) return ...`
predicateFalseReturn == Return(RetryFailure(errors, i + 1), errors, "predicateFalse")

\* retry() resumes after `await shouldRetry(err, i + 1)` up to the await of
\* waitForDelay
ResumePredicate ==
    /\ pc = "pred"
    /\ \E answer \in ShouldRetryAnswers(CHOOSE e \in outcome.error : TRUE) :
        LET answered == Append(log, Event("answer", i + 1, outcome.error, 0, answer))
        IN
          IF answer = "throw"
          THEN /\ predicateThrewReturn
               /\ log' = answered
               /\ UNCHANGED <<drace, dtimer, dlistener, delayMs, hookCalls, waits>>
          ELSE IF answer = "false"
          THEN /\ predicateFalseReturn
               /\ log' = answered
               /\ UNCHANGED <<drace, dtimer, dlistener, delayMs, hookCalls, waits>>
          ELSE \E r \in 0 .. (RandDen - 1) :
                 LET delay == calculateDelay(options.delay, options.maxDelay,
                                             options.jitter, i + 1, r)
                     hooked == IF options.onRetry = "present"
                               THEN Append(answered,
                                           Event("hook", i + 1, outcome.error, delay, ""))
                               ELSE answered
                 IN \/ /\ options.onRetry = "present"      \* onRetry throws
                       /\ hookCalls' = hookCalls + 1
                       /\ pc' = "threw"
                       /\ log' = hooked
                       /\ UNCHANGED <<result, errors, exit, drace, dtimer,
                                      dlistener, delayMs, waits>>
                    \/ /\ hookCalls' = IF options.onRetry = "present"
                                       THEN hookCalls + 1 ELSE hookCalls
                       /\ log' = answered \o hookThenWait(i + 1, outcome.error, delay)
                       /\ waitForDelay(delay)
    /\ UNCHANGED <<options, arg, ret, i, outcome, aborted, abortedAt, sig, work, reacts,
                   race, atimer, alistener, calls, predCalls>>

\* the delayTimer callback: resolve()
DelayTimerFire ==
    /\ dtimer = "armed"
    /\ dtimer' = "fired"
    /\ drace' = Settle(drace, Resolved(BareResult("undefined")))
    /\ UNCHANGED <<options, arg, ret, log, pc, i, errors, outcome, result, aborted, sig, work,
                   reacts, race, atimer, alistener, dlistener, delayMs,
                   calls, predCalls, hookCalls, waits, exit, abortedAt>>

\* waitForDelay resumes after its race settled: the finally block, and then
\* retry() resumes: the catch of delayAbortErr, or the next loop iteration
ResumeDelay ==
    /\ pc = "delay"
    /\ drace.st # "pending"
    /\ drace' = Pending
    /\ dtimer' = clearTimeout(dtimer)
    /\ dlistener' = removeEventListener(dlistener)
    /\ delayMs' = 0
    /\ IF drace.st = "rejected"
       THEN /\ delayAbortedReturn(CHOOSE e \in drace.err : TRUE)
            /\ UNCHANGED <<i, aborted, abortedAt, sig, work, reacts, race, atimer,
                           alistener, calls, log>>
       ELSE EnterIteration(i + 1)
    /\ UNCHANGED <<options, arg, ret, outcome, predCalls, hookCalls, waits>>

Next ==
    \/ Start
    \/ \E k \in Attempts : WorkSettle(k)
    \/ AttemptTimerFire
    \/ Abort
    \/ ResumeAttempt
    \/ ResumePredicate
    \/ DelayTimerFire
    \/ ResumeDelay

Spec == Init /\ [][Next]_vars

\* ------------------------------------------- the default predicate on its own
\* the policies of sessions that leave the decision to defaultShouldRetry
ShouldRetryPolicies ==
    [retries : {2},
     delay : {100},
     maxDelay : {150},
     jitter : {"none"},
     shouldRetry : {"default"},
     retryOnFalsy : {"false"},
     hasSignal : BOOLEAN,
     attemptTimeout : {{}, {1000}},
     onRetry : {"absent"}]

\* an error object is picked; the work of the session fails with it
InitShouldRetry ==
    /\ InitSession(ShouldRetryPolicies)
    /\ arg \in {{error} : error \in ErrorSamples}
    /\ ret = {}

\* defaultShouldRetry(error) is called directly
ApplyDefaultShouldRetry ==
    /\ ret = {}
    /\ \E error \in arg : ret' = {defaultShouldRetry(error)}
    /\ UNCHANGED <<options, pc, i, errors, outcome, result, aborted, sig, work,
                   reacts, race, atimer, alistener, drace, dtimer, dlistener,
                   delayMs, calls, predCalls, hookCalls, waits, exit, abortedAt,
                   log, arg>>

NextShouldRetry ==
    \/ ApplyDefaultShouldRetry
    \/ Next

SpecShouldRetry == InitShouldRetry /\ [][NextShouldRetry]_vars

\* --------------------------------------------------- sessions that are run on
\* the policies of the sessions whose progress is examined
LivePolicies ==
    [retries : {1, 2},
     delay : {100},
     maxDelay : {150},
     jitter : {"none"},
     shouldRetry : {"default", "custom"},
     retryOnFalsy : {"false"},
     hasSignal : BOOLEAN,
     attemptTimeout : {{}, {1000}},
     onRetry : {"absent", "present"}]

InitLive ==
    /\ InitSession(LivePolicies)
    /\ arg = {}
    /\ ret = {}

\* the event loop runs every continuation that is ready and fires every timer
\* that is armed; the work settles by itself where no attemptTimeout bounds it.
\* Nothing obliges the caller to abort the operation-wide signal.
Fairness ==
    /\ WF_vars(Start)
    /\ WF_vars(ResumeAttempt)
    /\ WF_vars(ResumePredicate)
    /\ WF_vars(ResumeDelay)
    /\ WF_vars(AttemptTimerFire)
    /\ WF_vars(DelayTimerFire)
    /\ WF_vars(~HasTimeout /\ \E k \in Attempts : WorkSettle(k))

SpecLive == InitLive /\ [][Next]_vars /\ Fairness

\* ------------------------------------------------------- the flaky scenario
\* testFlakyAPI's options, with its jitter ('full', the default) and without
\* jitter, with the default and a low maxDelay
FlakyPolicies ==
    [retries : {FlakyRetries},
     delay : {100},
     maxDelay : {150, 7000},
     jitter : {"none", "full"},
     shouldRetry : {"default"},
     retryOnFalsy : {"false"},
     hasSignal : BOOLEAN,
     attemptTimeout : {{}, {1000}},
     onRetry : {"absent", "present"}]

InitFlaky ==
    /\ InitSession(FlakyPolicies)
    /\ arg = {}
    /\ ret = {}

SpecFlaky == InitFlaky /\ [][Next]_vars

\* ------------------------------------------- result normalisation on its own
\* what fn can resolve with: every bare value, and objects with a data or
\* error key whose data is any value and whose error is falsy or an error
ResultSamples ==
    {BareResult(v) : v \in Val} \cup
    {Wrapper(v, e) : v \in Val, e \in {{}, {HttpError(503)}, {HttpError(404)}}}

\* the options executeAttempt reads when it normalises: every retryOnFalsy
NormalizePolicies ==
    [retries : {1},
     delay : {100},
     maxDelay : {150},
     jitter : {"none"},
     shouldRetry : {"default"},
     retryOnFalsy : {"false", "true", "isEmptyArray", "throws"},
     hasSignal : {FALSE},
     attemptTimeout : {{}},
     onRetry : {"absent"}]

\* options and what fn resolved with are picked
InitNormalize ==
    /\ InitSession(NormalizePolicies)
    /\ arg \in {{res} : res \in ResultSamples}
    /\ ret = {}

\* the part of executeAttempt that follows `await Promise.race(racers)`
ApplyNormalize ==
    /\ ret = {}
    /\ \E res \in arg : ret' = {Normalize(res, options.retryOnFalsy)}
    /\ UNCHANGED <<options, pc, i, errors, outcome, result, aborted, sig, work,
                   reacts, race, atimer, alistener, drace, dtimer, dlistener,
                   delayMs, calls, predCalls, hookCalls, waits, exit, abortedAt,
                   log, arg>>

NextNormalize == ApplyNormalize

SpecNormalize == InitNormalize /\ [][NextNormalize]_vars

\* ---------------------------------------------------- calculateDelay on its own
\* the largest of the small attempt numbers calculateDelay is applied to
MaxAttemptSample == 4

\* attempt numbers: the first few, and the two around the largest power of
\* two a double holds
AttemptSamples == (1 .. MaxAttemptSample) \cup {DoubleMaxExponent, DoubleMaxExponent + 1}

\* the options calculateDelay reads, over zero, tiny and usual values
BackoffPolicies ==
    [retries : {3},
     delay : {0, 1, 100, 500},
     maxDelay : {0, 1, 150, 7000},
     jitter : {"none", "full", "equal"},
     shouldRetry : {"default"},
     retryOnFalsy : {"false"},
     hasSignal : {FALSE},
     attemptTimeout : {{}},
     onRetry : {"absent"}]

\* options, an attempt number and a value of Math.random() are picked
InitBackoff ==
    /\ InitSession(BackoffPolicies)
    /\ arg \in {{[attempt |-> n, random |-> r]} :
                    n \in AttemptSamples, r \in 0 .. (RandDen - 1)}
    /\ ret = {}

\* calculateDelay(options, attempt) is called directly
ApplyCalculateDelay ==
    /\ ret = {}
    /\ \E a \in arg :
          ret' = {calculateDelay(options.delay, options.maxDelay, options.jitter,
                                 a.attempt, a.random)}
    /\ UNCHANGED <<options, pc, i, errors, outcome, result, aborted, sig, work,
                   reacts, race, atimer, alistener, drace, dtimer, dlistener,
                   delayMs, calls, predCalls, hookCalls, waits, exit, abortedAt,
                   log, arg>>

NextBackoff == ApplyCalculateDelay

SpecBackoff == InitBackoff /\ [][NextBackoff]_vars

\* ------------------------------------------------- the monolithic retry()
\* retry.ts is the session in one function: the loop body is a single
\* try / catch / finally, where the catch block holds the predicate, the hook
\* and the wait, and the finally block (clearTimeout(attemptTimer), removal of
\* globalAbortListener, attemptController.abort()) runs when the catch block
\* is left. The state is that of the refactored session; the race of an
\* attempt keeps its settlement until the finally block has run.
MonolithPolicies ==
    [retries : 0 .. MaxRetries,
     delay : {100},
     maxDelay : {150},
     jitter : {"none", "full"},
     shouldRetry : {"default", "custom"},
     retryOnFalsy : {"false"},
     hasSignal : BOOLEAN,
     attemptTimeout : {{}, {0}, {1000}},
     onRetry : {"absent", "present"}]

InitMonolith ==
    /\ InitSession(MonolithPolicies)
    /\ arg = {}
    /\ ret = {}

\* retry.ts: the finally block of the loop body, for the attempt of index i
monolithFinally ==
    /\ atimer' = clearTimeout(atimer)
    /\ alistener' = removeEventListener(alistener)
    /\ sig' = finallyAbort(i + 1)
    /\ work' = WorkAfterAbort(i + 1)
    /\ race' = Pending

\* retry.ts: the try block up to `await Promise.race(racers)`, entered with the
\* signals sig0 and the works work0 of the earlier attempts. When fn throws in
\* the call, control passes to the catch block with no timer and no listener
\* set and with the signal of the attempt live.
monolithAttempt(attempt, sig0, work0) ==
    /\ calls' = calls + 1
    /\ log' = Append(log, Event("fn", attempt, {}, 0, ""))
    /\ pc' = "attempt"
    /\ sig' = [sig0 EXCEPT ![attempt] = "live"]
    /\ \/ \E e \in WorkErrors :
            /\ race' = Rejected(e)
            /\ work' = [work0 EXCEPT ![attempt] = "threw"]
            /\ atimer' = "none"
            /\ alistener' = FALSE
            /\ UNCHANGED <<reacts, aborted, abortedAt>>
       \/ \E listens \in BOOLEAN, abortsNow \in {b \in BOOLEAN : b => options.hasSignal} :
            /\ work' = [work0 EXCEPT ![attempt] = "pending"]
            /\ reacts' = [reacts EXCEPT ![attempt] = listens]
            /\ aborted' = (aborted \/ abortsNow)
            /\ abortedAt' = IF abortsNow /\ ~aborted THEN "call" ELSE abortedAt
            /\ atimer' = IF HasTimeout THEN "armed" ELSE "none"
            /\ IF options.hasSignal /\ aborted'
               THEN /\ race' = Rejected(AbortError("Operation aborted."))
                    /\ alistener' = FALSE
               ELSE /\ race' = Pending
                    /\ alistener' = options.hasSignal

\* retry.ts: retry(fn, options) is called: the first iteration up to its await
MonolithStart ==
    /\ pc = "init"
    /\ i' = 0
    /\ IF ~loopCondition(0)
       THEN /\ Return(RetryFailure(errors, maxAttempts), errors, "exhausted")
            /\ UNCHANGED <<aborted, abortedAt, sig, work, reacts, race, atimer,
                           alistener, calls, log>>
       ELSE IF precheck
       THEN /\ precheckReturn(0)
            /\ UNCHANGED <<aborted, abortedAt, sig, work, reacts, race, atimer,
                           alistener, calls, log>>
       ELSE /\ monolithAttempt(attemptNumber(0), sig, work)
            /\ UNCHANGED <<result, errors, exit>>
    /\ UNCHANGED <<options, arg, ret, outcome, drace, dtimer, dlistener, delayMs,
                   predCalls, hookCalls, waits>>

\* retry.ts resumes after `await Promise.race(racers)`: result normalization;
\* a success returns through the finally block; a failure enters the catch
\* block, which breaks out of the loop through the finally block after the last
\* attempt and otherwise calls shouldRetry with the attempt's timer, listener
\* and signal as they are
MonolithResumeAttempt ==
    /\ pc = "attempt"
    /\ race.st # "pending"
    /\ LET out == IF race.st = "resolved"
                  THEN Normalize(race.res, options.retryOnFalsy)
                  ELSE Failure(CHOOSE e \in race.err : TRUE)
           errs == push(errors, CHOOSE e \in out.error : TRUE)
           settled == Append(log, Event(IF out.ok THEN "ok" ELSE "fail", i + 1,
                                        out.error, 0, ""))
       IN /\ outcome' = out
          /\ IF out.ok
             THEN /\ successReturn(out.value)
                  /\ monolithFinally
                  /\ log' = settled
                  /\ UNCHANGED predCalls
             ELSE IF lastAttempt
             THEN /\ exhaustedReturn(errs)
                  /\ monolithFinally
                  /\ log' = settled
                  /\ UNCHANGED predCalls
             ELSE /\ pc' = "pred"
                  /\ errors' = errs
                  /\ predCalls' = predCalls + 1
                  /\ log' = Append(settled, Event("pred", i + 1, out.error, 0, ""))
                  /\ UNCHANGED <<result, exit, atimer, alistener, sig, work, race>>
    /\ UNCHANGED <<options, arg, ret, i, aborted, abortedAt, reacts, drace, dtimer, dlistener,
                   delayMs, calls, hookCalls, waits>>

\* retry.ts: the wait up to its await: delayTimer is set first, and only then,
\* inside the second racer, is the signal looked at
monolithDelay(delay) ==
    /\ waits' = waits + 1
    /\ pc' = "delay"
    /\ dtimer' = "armed"
    /\ delayMs' = delay
    /\ IF options.hasSignal /\ aborted
       THEN /\ drace' = Rejected(AbortError("Delay aborted."))
            /\ dlistener' = FALSE
       ELSE /\ drace' = Pending
            /\ dlistener' = options.hasSignal
    /\ UNCHANGED <<result, errors, exit>>

\* retry.ts resumes after `await shouldRetry(err, i + 1)`, still in the catch
\* block: the returns and a throwing onRetry leave it through the finally
\* block, the wait is started with the attempt not yet cleaned up
MonolithResumePredicate ==
    /\ pc = "pred"
    /\ \E answer \in ShouldRetryAnswers(CHOOSE e \in outcome.error : TRUE) :
        LET answered == Append(log, Event("answer", i + 1, outcome.error, 0, answer))
        IN
          IF answer = "throw"
          THEN /\ predicateThrewReturn
               /\ monolithFinally
               /\ log' = answered
               /\ UNCHANGED <<drace, dtimer, dlistener, delayMs, hookCalls, waits>>
          ELSE IF answer = "false"
          THEN /\ predicateFalseReturn
               /\ monolithFinally
               /\ log' = answered
               /\ UNCHANGED <<drace, dtimer, dlistener, delayMs, hookCalls, waits>>
          ELSE \E r \in 0 .. (RandDen - 1) :
                 LET delay == calculateDelay(options.delay, options.maxDelay,
                                             options.jitter, i + 1, r)
                 IN \/ /\ options.onRetry = "present"      \* onRetry throws
                       /\ hookCalls' = hookCalls + 1
                       /\ pc' = "threw"
                       /\ monolithFinally
                       /\ log' = Append(answered,
                                        Event("hook", i + 1, outcome.error, delay, ""))
                       /\ UNCHANGED <<result, errors, exit, drace, dtimer,
                                      dlistener, delayMs, waits>>
                    \/ /\ hookCalls' = IF options.onRetry = "present"
                                       THEN hookCalls + 1 ELSE hookCalls
                       /\ log' = answered \o hookThenWait(i + 1, outcome.error, delay)
                       /\ monolithDelay(delay)
                       /\ UNCHANGED <<sig, work, race, atimer, alistener>>
    /\ UNCHANGED <<options, arg, ret, i, outcome, aborted, abortedAt, reacts,
                   calls, predCalls>>

\* retry.ts resumes after the await of the wait: the inner finally block, the
\* catch of delayAbortErr or the end of the catch block, the outer finally
\* block, and then the next iteration up to its await
MonolithResumeDelay ==
    /\ pc = "delay"
    /\ drace.st # "pending"
    /\ drace' = Pending
    /\ dtimer' = clearTimeout(dtimer)
    /\ dlistener' = removeEventListener(dlistener)
    /\ delayMs' = 0
    /\ IF drace.st = "rejected"
       THEN /\ delayAbortedReturn(CHOOSE e \in drace.err : TRUE)
            /\ monolithFinally
            /\ UNCHANGED <<i, aborted, abortedAt, reacts, calls, log>>
       ELSE /\ i' = i + 1
            /\ IF ~loopCondition(i + 1)
               THEN /\ Return(RetryFailure(errors, maxAttempts), errors, "exhausted")
                    /\ monolithFinally
                    /\ UNCHANGED <<aborted, abortedAt, reacts, calls, log>>
               ELSE IF precheck
               THEN /\ precheckReturn(i + 1)
                    /\ monolithFinally
                    /\ UNCHANGED <<aborted, abortedAt, reacts, calls, log>>
               ELSE /\ monolithAttempt(attemptNumber(i + 1), finallyAbort(i + 1),
                                       WorkAfterAbort(i + 1))
                    /\ UNCHANGED <<result, errors, exit>>
    /\ UNCHANGED <<options, arg, ret, outcome, predCalls, hookCalls, waits>>

\* the events are those of the refactored session: the work settles, the
\* attempt's timer fires, the operation-wide signal is triggered, the wait's
\* timer fires; the timer and the listener of an attempt can now also run
\* while the predicate is awaited and during the wait
NextMonolith ==
    \/ MonolithStart
    \/ \E k \in Attempts : WorkSettle(k)
    \/ AttemptTimerFire
    \/ Abort
    \/ MonolithResumeAttempt
    \/ MonolithResumePredicate
    \/ DelayTimerFire
    \/ MonolithResumeDelay

SpecMonolith == InitMonolith /\ [][NextMonolith]_vars

TypeOK ==
    /\ options \in Policies \cup ShouldRetryPolicies \cup BackoffPolicies \cup FlakyPolicies
                  \cup LivePolicies \cup NormalizePolicies \cup MonolithPolicies
    /\ pc \in {"init", "attempt", "pred", "delay", "done", "threw"}
    /\ i \in 0 .. options.retries
    /\ aborted \in BOOLEAN
    /\ calls \in 0 .. options.retries
    /\ \A k \in Attempts :
          /\ sig[k] \in {"none", "live", "aborted"}
          /\ work[k] \in {"idle", "pending", "settled", "threw", "rejectedOnAbort"}
    /\ exit \in {"none", "success", "exhausted", "precheck", "predicateFalse",
                 "predicateThrew", "delayAborted"}
    /\ abortedAt \in {"never", "before", "call", "attempt", "delay", "other"}
    /\ atimer \in {"none", "armed", "fired"}
    /\ dtimer \in {"none", "armed", "fired"}
    /\ alistener \in BOOLEAN
    /\ dlistener \in BOOLEAN
    /\ \A n \in 1 .. Len(log) :
          /\ log[n].ev \in {"fn", "ok", "fail", "pred", "answer", "hook", "wait"}
          /\ log[n].attempt \in Attempts

\* ------------------------------------------------------------------ claims
FailureList == CHOOSE errs \in result.errors : TRUE
Failed == pc = "done" /\ result.errors # {}
Succeeded == pc = "done" /\ result.errors = {}
Last(seq) == seq[Len(seq)]

\* C1: with retries >= 1, whatever the work, the retry predicate and the
\* operation-wide signal do, fn is invoked at most `retries` times in a session.
C1_AtMostMaxAttempts ==
    options.retries >= 1 => calls <= options.retries

\* a session that used every attempt it was allowed, after at least one wait
C1_Witness ==
    /\ pc = "done"
    /\ options.retries >= 2
    /\ calls = options.retries
    /\ exit = "exhausted"

\* C2: when attempt k is the first to succeed, retry() returns at once the
\* success result with that attempt's value and attempts = k, fn having been
\* invoked exactly k times; after that no invocation of fn, shouldRetry or
\* onRetry and no backoff wait happens.
C2_FirstSuccessShortCircuits ==
    [][/\ outcome'.ok =>
            /\ pc' = "done"
            /\ result' = [data |-> outcome'.value, errors |-> {}, attempts |-> i' + 1]
            /\ calls' = i' + 1
            /\ Len(errors') = i'
       /\ outcome.ok =>
            UNCHANGED <<pc, result, outcome, calls, predCalls, hookCalls, waits,
                        dtimer, atimer>>]_vars

\* a session that succeeded on its second attempt, and whose first attempt's
\* work settles later
C2_Witness ==
    /\ pc = "done"
    /\ outcome.ok
    /\ result.attempts = 2
    /\ calls = 2
    /\ work[1] = "settled"
    /\ work[2] = "settled"

\* C3: whatever fn, retryOnFalsy, shouldRetry and onRetry do, retry() never
\* rejects: the session ends by returning a result, and an exception thrown
\* by onRetry does not escape.
C3_NeverThrowsPastBoundary ==
    pc # "threw"

\* C4 as stated: on every failure result of a session not ended by the
\* pre-attempt check, errors.length = attempts.
C4_FailureListLengthOriginal ==
    (Failed /\ exit # "precheck") => Len(FailureList) = result.attempts

\* C4 as amended: errors.length = attempts when the attempts were exhausted or
\* shouldRetry returned false; errors.length = attempts + 1 when shouldRetry
\* threw or the backoff wait was interrupted, the extra last entry being the
\* predicate's error or the AbortError of the wait.
C4_FailureListLength ==
    Failed =>
       /\ exit \in {"exhausted", "predicateFalse"} =>
             Len(FailureList) = result.attempts
       /\ exit = "predicateThrew" =>
             /\ Len(FailureList) = result.attempts + 1
             /\ Last(FailureList) = PredicateError
       /\ exit = "delayAborted" =>
             /\ Len(FailureList) = result.attempts + 1
             /\ Last(FailureList) = AbortError("Delay aborted.")

\* a session ended by the cancellation of its backoff wait
C4_Witness ==
    /\ Failed
    /\ exit = "delayAborted"
    /\ abortedAt = "delay"
    /\ result.attempts >= 1
    /\ Len(FailureList) = result.attempts + 1

\* C5: when the operation-wide signal is triggered while an attempt is in
\* flight or a backoff wait is pending, what the session awaits is settled
\* at once, and the session ends failed with an AbortError in its failure
\* list, also for work that rejects when its attempt signal is aborted.
C5_CancellationRecorded ==
    /\ (abortedAt = "attempt" /\ pc = "attempt") => race.st # "pending"
    /\ (abortedAt = "delay" /\ pc = "delay") => drace.st # "pending"
    /\ (abortedAt \in {"attempt", "delay"} /\ pc = "done") =>
          /\ Failed
          /\ \E idx \in 1 .. Len(FailureList) : FailureList[idx].name = "AbortError"

\* C6: once the operation-wide signal is aborted, fn is not invoked again,
\* whatever shouldRetry answers.
C6_NoInvocationAfterCancel ==
    [][aborted => calls' = calls]_vars

\* the signal was triggered during an attempt, a custom shouldRetry asked for
\* a retry of the failure, attempts remained, and no further attempt started
C6_Witness ==
    /\ pc = "done"
    /\ abortedAt = "attempt"
    /\ options.shouldRetry = "custom"
    /\ exit = "delayAborted"
    /\ calls < options.retries

\* C7: with retries >= 1 and a signal already aborted when retry() is
\* called, fn is never invoked and the result is failed with exactly one
\* failure, an AbortError, and attempts = 0; whenever the pre-attempt check
\* at loop index i sees the signal aborted, one AbortError is appended to the
\* failures of the i attempts made and attempts = i.
C7_PreAttemptCancellation ==
    /\ (abortedAt = "before" /\ pc # "init" /\ options.retries >= 1) =>
          /\ exit = "precheck"
          /\ calls = 0
          /\ result = [data |-> "null",
                       errors |-> {<<AbortError("The operation was aborted.")>>},
                       attempts |-> 0]
    /\ exit = "precheck" =>
          /\ Failed
          /\ result.attempts = i
          /\ calls = i
          /\ Len(FailureList) = i + 1
          /\ Last(FailureList).name = "AbortError"

\* retry() was called with an aborted signal and has returned
C7_Witness ==
    /\ abortedAt = "before"
    /\ options.retries >= 2
    /\ exit = "precheck"
    /\ calls = 0

\* a session with a per-attempt deadline and the default predicate, whose
\* signal is never triggered and whose work never settles
HangingWork ==
    /\ HasTimeout
    /\ options.shouldRetry = "default"
    /\ options.retries >= 1
    /\ ~aborted
    /\ \A k \in 1 .. calls : work[k] = "pending" /\ ~reacts[k]

\* C8: in such a session every attempt fails with a TimeoutError when its
\* timer fires, and the session returns, after exactly `retries` attempts,
\* the failure result with `retries` TimeoutErrors.
C8_DeadlineExhausts ==
    HangingWork =>
       /\ \A idx \in 1 .. Len(errors) : errors[idx] = TimeoutError
       /\ (pc = "attempt" /\ race.st # "pending") => race = Rejected(TimeoutError)
       /\ pc = "done" =>
             /\ calls = options.retries
             /\ result = [data |-> "null", errors |-> {errors},
                          attempts |-> options.retries]
             /\ Len(errors) = options.retries

\* such a session has returned after more than one attempt
C8_Witness ==
    /\ HangingWork
    /\ pc = "done"
    /\ options.retries >= 2
    /\ calls = options.retries

\* C9: with a per-attempt deadline, the default predicate, no cancellation,
\* and work that outlasts the deadline and rejects as soon as its attempt
\* signal is aborted, every recorded failure is a TimeoutError and all
\* `retries` attempts are made.
C9_ReactiveWorkTimesOut ==
    (/\ HasTimeout
     /\ options.shouldRetry = "default"
     /\ options.retries >= 1
     /\ ~aborted
     /\ \A k \in 1 .. calls : reacts[k] /\ work[k] \in {"pending", "rejectedOnAbort"})
    =>
       /\ \A idx \in 1 .. Len(errors) : errors[idx] = TimeoutError
       /\ pc = "done" => (Failed /\ calls = options.retries)

\* C10: whenever executeAttempt has returned, the attempt signal it handed
\* to fn is aborted: only the attempt under way can have a live signal.
C10_AttemptSignalCancelledOnReturn ==
    \A k \in 1 .. calls :
       \/ pc = "attempt" /\ k = i + 1
       \/ sig[k] = "aborted"

\* an attempt succeeded with no deadline and no cancellation: only the
\* finally block aborts its signal
C10_Witness ==
    /\ Succeeded
    /\ ~HasTimeout
    /\ ~aborted
    /\ calls = 1
    /\ sig[1] = "aborted"

\* C11: no timer and no listener outlives the function that created it: once
\* executeAttempt has exited its timer is not pending and its listener is not
\* registered, the same for waitForDelay, and so neither is left when retry()
\* has returned (or thrown)
C11_NoTimerOrListenerLeak ==
    /\ pc # "attempt" => atimer # "armed" /\ ~alistener
    /\ pc # "delay" => dtimer # "armed" /\ ~dlistener
    /\ pc \in {"done", "threw"} =>
          /\ atimer # "armed" /\ dtimer # "armed"
          /\ ~alistener /\ ~dlistener

\* a wait that the signal cut short while its timer was pending, and an attempt
\* before it that ended while its deadline timer was pending
C11_Witness ==
    /\ pc = "done"
    /\ exit = "delayAborted"
    /\ abortedAt = "delay"
    /\ HasTimeout
    /\ work[1] \in {"settled", "threw"}
    /\ dtimer = "none"
    /\ atimer = "none"

\* the attempts whose executor has returned or thrown
Finished == {log[n].attempt : n \in {m \in 1 .. Len(log) : log[m].ev \in {"ok", "fail"}}}

\* C12: attempts are strictly sequential: at every moment at most one attempt
\* signal is not yet aborted, and fn is invoked for attempt N+1 only after the
\* executor of every earlier attempt has exited with its timer cleared, its
\* listener removed and its signal aborted
C12_AttemptsSequential ==
    /\ [](Cardinality({k \in Attempts : sig[k] = "live"}) <= 1)
    /\ [][calls' # calls =>
            /\ calls' = calls + 1
            /\ \A k \in 1 .. calls : k \in Finished /\ sig[k] = "aborted"
            /\ atimer # "armed"
            /\ ~alistener]_vars

\* the second attempt is under way while the work of the first, which timed
\* out, has still not settled
C12_Witness ==
    /\ pc = "attempt"
    /\ calls = 2
    /\ work[1] = "pending"
    /\ sig[1] = "aborted"
    /\ sig[2] = "live"

\* the errors executeAttempt threw for attempt k (none while it has not failed)
AttemptFailures(k) ==
    UNION {log[n].error : n \in {m \in 1 .. Len(log) :
                                    log[m].ev = "fail" /\ log[m].attempt = k}}

\* C13: the errors of a failed result are a complete ordered account: entry k
\* is the error attempt k failed with, for every k up to `attempts`, and what
\* else was recorded (a throwing predicate, an abort) comes after them
C13_FailuresInAttemptOrder ==
    Failed =>
        /\ Len(FailureList) >= result.attempts
        /\ Len(FailureList) <= result.attempts + 1
        /\ \A k \in 1 .. result.attempts : AttemptFailures(k) = {FailureList[k]}
        /\ Len(FailureList) > result.attempts =>
              \/ Last(FailureList) = PredicateError
              \/ Last(FailureList).name = "AbortError"

\* two attempts failed differently and both are in the list, in order
C13_Witness ==
    /\ Failed
    /\ result.attempts = 2
    /\ FailureList[1] = HttpError(503)
    /\ FailureList[2] = TimeoutError

\* C14: with retries >= 1 a result reports between 1 and `retries` attempts,
\* or 0 when the signal was aborted before the first attempt; and when all
\* `retries` attempts failed the result is a failure reporting `retries`
C14_AttemptsInRange ==
    (pc = "done" /\ options.retries >= 1) =>
        /\ result.attempts \in 0 .. options.retries
        /\ result.attempts = 0 =>
              exit = "precheck" /\ calls = 0 /\ abortedAt = "before"
        /\ (\A k \in 1 .. options.retries : AttemptFailures(k) # {}) =>
              Failed /\ result.attempts = options.retries

\* every permitted attempt was made and failed
C14_Witness ==
    /\ Failed
    /\ options.retries = 2
    /\ calls = 2
    /\ AttemptFailures(1) # {}
    /\ AttemptFailures(2) # {}
    /\ result.attempts = 2

\* C15: a result has one of two shapes: a success carries the data the work
\* produced and errors null, even when earlier attempts failed; a failure
\* carries data null and, with retries >= 1, a non-empty list of errors
C15_TwoShapes ==
    pc = "done" =>
        IF exit = "success"
        THEN /\ result.errors = {}
             /\ outcome.ok
             /\ result.data = outcome.value
        ELSE /\ result.data = "null"
             /\ result.errors # {}
             /\ options.retries >= 1 => Len(FailureList) >= 1

\* a success after a failed attempt: the failure is not in the result
C15_Witness ==
    /\ Succeeded
    /\ exit = "success"
    /\ Len(errors) >= 1
    /\ result.data = "object"
    /\ result.errors = {}

\* the positions of the log that hold an event of kind ev
Events(ev) == {n \in 1 .. Len(log) : log[n].ev = ev}

\* the attempts fn has been invoked for
Invoked == {log[n].attempt : n \in Events("fn")}

\* C16 as stated: every onRetry(k, error, delay) is followed by attempt k + 1,
\* so a session that has returned has invoked fn for the attempt after each
\* attempt onRetry was called for
C16_HookFollowedByAttemptOriginal ==
    pc = "done" => \A n \in Events("hook") : log[n].attempt + 1 \in Invoked

\* C16: onRetry is never invoked after a successful attempt nor for a failure
\* the session ends on by itself: every onRetry(k, error, delay) is for a
\* failed attempt k < retries whose error the predicate accepted, and attempt
\* k + 1 follows unless the signal is aborted before that attempt starts (or
\* onRetry itself throws)
C16_HookOnlyForRetriedFailure ==
    \A n \in Events("hook") :
        LET k == log[n].attempt IN
        /\ k < options.retries
        /\ log[n].error # {}
        /\ AttemptFailures(k) = log[n].error
        /\ \A m \in Events("ok") : m > n
        /\ \E m \in Events("answer") :
              m < n /\ log[m].attempt = k /\ log[m].answer = "true"
        /\ pc = "done" =>
              \/ k + 1 \in Invoked
              \/ aborted /\ exit \in {"delayAborted", "precheck"}

\* onRetry was called for the first failure and the second attempt, made
\* after the wait, ended the session successfully
C16_Witness ==
    /\ Succeeded
    /\ calls = 2
    /\ \E n \in Events("hook") : log[n].attempt = 1 /\ log[n].delay > 0
    /\ waits = 1

\* C17: when shouldRetry returns false for the failure of attempt k < retries
\* the session ends at once as a failure with attempts = k: that answer is the
\* last thing that happened, so no onRetry call, no wait and no invocation of
\* fn comes after it
C17_PredicateFalseStops ==
    \A n \in Events("answer") :
        log[n].answer = "false" =>
            /\ n = Len(log)
            /\ log[n].attempt < options.retries
            /\ pc = "done"
            /\ Failed
            /\ result.attempts = log[n].attempt
            /\ calls = log[n].attempt
            /\ Len(FailureList) = log[n].attempt
            /\ waits = log[n].attempt - 1
            /\ pc # "delay" /\ dtimer # "armed"

\* a custom predicate refused the first failure although an attempt remained
\* and onRetry was given
C17_Witness ==
    /\ exit = "predicateFalse"
    /\ options.shouldRetry = "custom"
    /\ options.onRetry = "present"
    /\ options.retries = 2
    /\ calls = 1
    /\ hookCalls = 0
    /\ waits = 0
    /\ result.attempts = 1

\* the numeric status-like fields of an error in the order they are consulted
StatusFields(error) == <<error.statusCode, error.status, error.code, error.respStatus>>

\* the first of them that holds a number, as a set ({} when none does)
FirstNumeric(error) ==
    LET present == {n \in 1 .. 4 : StatusFields(error)[n] # {}}
    IN IF present = {} THEN {}
       ELSE StatusFields(error)[CHOOSE n \in present : \A m \in present : n <= m]

\* C18: defaultShouldRetry answers true exactly for an error whose first
\* numeric field among statusCode, status, code, response.status is in
\* [500, 600), or that is a TimeoutError or a FalsyResultError; hence a
\* session under the default predicate whose first attempt fails with a
\* 404-shaped error returns a failure with attempts = 1 and one error
C18_DefaultPredicate ==
    \A error \in arg :
        /\ ret # {} =>
              ret = {\/ \E c \in FirstNumeric(error) : c \in 500 .. 599
                     \/ error.name = "TimeoutError"
                     \/ error.name = "FalsyResultError"}
        /\ ( /\ pc = "done"
             /\ AttemptFailures(1) = {error}
             /\ FirstNumeric(error) = {404}
             /\ error.name = "Error" ) =>
              /\ Failed
              /\ result.attempts = 1
              /\ Len(FailureList) = 1
              /\ calls = 1

\* the predicate refused an error whose statusCode 404 hides a 5xx status, and
\* the session whose work failed with it ended after one attempt
C18_Witness ==
    /\ \E error \in arg :
          /\ error.statusCode = {404}
          /\ error.status = {500}
          /\ error.name = "Error"
    /\ ret = {FALSE}
    /\ pc = "done"
    /\ exit = "predicateFalse"
    /\ result.attempts = 1
    /\ AttemptFailures(1) = arg

\* C19: for non-negative integer delay and maxDelay and attempt n >= 1,
\* calculateDelay returns d with 0 <= d <= maxDelay; with raw =
\* min(delay * 2^(n-1), maxDelay), d = raw under jitter 'none',
\* 0 <= d <= raw under 'full' and floor(raw / 2) <= d <= raw under 'equal'
C19_DelayBounds ==
    \A a \in arg : \A d \in ret :
        LET raw == MinScaled(options.delay, a.attempt - 1, options.maxDelay) IN
        /\ 0 <= d /\ d <= options.maxDelay
        /\ options.jitter = "none" => d = raw
        /\ options.jitter = "full" => 0 <= d /\ d <= raw
        /\ options.jitter = "equal" => raw \div 2 <= d /\ d <= raw

IsWait(event) == event.ev = "wait"

\* the delays waitForDelay was called with, in order
WaitDelays == [n \in 1 .. Len(SelectSeq(log, IsWait)) |-> SelectSeq(log, IsWait)[n].delay]

\* C20: with jitter 'none' the wait after failed attempt k is set for exactly
\* min(delay * 2^(k-1), maxDelay); so with retries 3, delay 100 and the default
\* maxDelay, work that fails with a 503 on attempts 1 and 2 and succeeds on
\* attempt 3 gives a success with attempts = 3 after exactly two waits, of 100
\* and of 200
C20_ExactWaitsWithoutJitter ==
    options.jitter = "none" =>
        /\ \A n \in Events("wait") :
              log[n].delay = MinScaled(options.delay, log[n].attempt - 1, options.maxDelay)
        /\ pc = "delay" => delayMs = Last(WaitDelays)
        /\ ( /\ options.retries = 3 /\ options.delay = 100 /\ options.maxDelay = 7000
             /\ AttemptFailures(1) = {HttpError(503)}
             /\ AttemptFailures(2) = {HttpError(503)}
             /\ \E n \in Events("ok") : log[n].attempt = 3 ) =>
              /\ Succeeded
              /\ result.attempts = 3
              /\ waits = 2
              /\ WaitDelays = <<100, 200>>

\* the scenario: two 503 failures, then a success on the third attempt
C20_Witness ==
    /\ options.jitter = "none" /\ options.delay = 100 /\ options.maxDelay = 7000
    /\ options.retries = 3
    /\ AttemptFailures(1) = {HttpError(503)}
    /\ AttemptFailures(2) = {HttpError(503)}
    /\ pc = "done"
    /\ exit = "success"
    /\ result.attempts = 3
    /\ WaitDelays = <<100, 200>>

\* C21: with retryOnFalsy true an attempt that resolves with null or undefined
\* fails with FalsyResultError, and the default predicate retries it while
\* attempts remain; with a function exactly the values it accepts fail so, the
\* empty-array function failing [] and passing null on as a success; with
\* retryOnFalsy false no value fails so
C21_FalsyResults ==
    /\ [][(pc = "attempt" /\ pc' # "attempt" /\ race.st = "resolved"
             /\ race.res.error = {}) =>
            LET value == race.res.data
                falsy == outcome' = Failure(FalsyResultError)
                passed == outcome' = Success(value)
            IN /\ falsy \/ passed \/ options.retryOnFalsy = "throws"
               /\ options.retryOnFalsy = "true" =>
                     (falsy <=> value \in {"null", "undefined"})
               /\ options.retryOnFalsy = "isEmptyArray" =>
                     (falsy <=> value = "emptyArray")
               /\ options.retryOnFalsy = "false" => passed]_vars
    /\ [](\A n \in Events("fail") :
            ( /\ log[n].error = {FalsyResultError}
              /\ log[n].attempt < options.retries
              /\ options.shouldRetry = "default" ) =>
                /\ options.retryOnFalsy \in {"true", "isEmptyArray"}
                /\ Len(log) > n /\ log[n + 1].ev = "pred"
                /\ \A m \in Events("answer") :
                      log[m].attempt = log[n].attempt => log[m].answer = "true")

\* under the empty-array function a first attempt that gave [] was retried and
\* the second, which gave null, ended the session as a success with data null
C21_Witness ==
    /\ options.retryOnFalsy = "isEmptyArray"
    /\ options.shouldRetry = "default"
    /\ AttemptFailures(1) = {FalsyResultError}
    /\ pc = "done"
    /\ exit = "success"
    /\ result.attempts = 2
    /\ result.data = "null"

IsHook(event) == event.ev = "hook"

\* the delays onRetry was called with, in order
HookDelays == [n \in 1 .. Len(SelectSeq(log, IsHook)) |-> SelectSeq(log, IsHook)[n].delay]

C23_SignalPropagation ==
    /\ [][((atimer = "armed" /\ atimer' = "fired") \/ (pc = "attempt" /\ pc' # "attempt"))
            => aborted' = aborted]_vars
    /\ [][(~aborted /\ aborted' /\ pc' = "attempt") => sig'[i' + 1] = "aborted"]_vars

\* C24: when timers fire and continuations run, and the work settles or has a
\* deadline, retry() eventually returns (or, when onRetry throws instead of
\* returning, rejects); and once it has returned the session does nothing
\* more: no call of fn, shouldRetry or onRetry, no wait, no timer set or fired
C24_ReturnsAndStops ==
    /\ <>(pc = "done" \/ pc = "threw")
    /\ [][pc = "done" =>
            /\ pc' = "done"
            /\ result' = result
            /\ log' = log
            /\ calls' = calls /\ predCalls' = predCalls
            /\ hookCalls' = hookCalls /\ waits' = waits
            /\ atimer' = atimer /\ dtimer' = dtimer]_vars

\* retry() has returned although the work of its attempts never settled
C24_Witness ==
    /\ pc = "done"
    /\ HasTimeout
    /\ options.retries = 2
    /\ work[1] = "pending"
    /\ work[2] = "pending"
    /\ exit = "exhausted"

\* C26: when shouldRetry throws or rejects for the failure of attempt k, its
\* error is appended right after that failure and the session ends as a
\* failure with attempts = k: the throw is the last thing that happened, so no
\* onRetry call, no wait and no invocation of fn comes after it
C26_PredicateThrowStops ==
    \A n \in Events("answer") :
        log[n].answer = "throw" =>
            LET k == log[n].attempt IN
            /\ n = Len(log)
            /\ pc = "done"
            /\ Failed
            /\ result.attempts = k
            /\ calls = k
            /\ Len(FailureList) = k + 1
            /\ AttemptFailures(k) = {FailureList[k]}
            /\ FailureList[k + 1] = PredicateError
            /\ waits = k - 1
            /\ \A m \in Events("hook") \cup Events("wait") : log[m].attempt < k
            /\ dtimer # "armed"

\* a throwing predicate ended a session that had an attempt left and a hook
C26_Witness ==
    /\ exit = "predicateThrew"
    /\ options.retries = 2
    /\ options.onRetry = "present"
    /\ calls = 1
    /\ result.attempts = 1
    /\ Last(FailureList) = PredicateError
    /\ hookCalls = 0

\* C27: for a failed attempt k that is not the last one the order is: the
\* failure is appended to errors, shouldRetry is called with (failure, k), the
\* delay for k is computed, onRetry is called with (k, failure, delay), the
\* wait is started with that delay; so a wait starts only after shouldRetry
\* has answered and onRetry has been called
C27_OrderPerFailedAttempt ==
    /\ pc = "pred" => Len(errors) = i + 1 /\ outcome.error = {Last(errors)}
    /\ \A n \in Events("wait") :
          LET k == log[n].attempt IN
          /\ k < options.retries
          /\ \E f \in Events("fail"), p \in Events("pred"), a \in Events("answer") :
                /\ f < p /\ p < a /\ a < n
                /\ log[f].attempt = k /\ log[p].attempt = k /\ log[a].attempt = k
                /\ log[p].error = log[f].error
                /\ log[a].answer = "true"
                /\ options.onRetry = "present" =>
                      \E h \in Events("hook") :
                          /\ a < h /\ h < n
                          /\ log[h].attempt = k
                          /\ log[h].error = log[f].error
                          /\ log[h].delay = log[n].delay
    /\ \A h \in Events("hook") :
          \A n \in Events("wait") : log[n].attempt = log[h].attempt => h < n

\* the wait after the first failure is running; the predicate and the hook
\* were called before it
C27_Witness ==
    /\ pc = "delay"
    /\ options.onRetry = "present"
    /\ options.shouldRetry = "custom"
    /\ Len(log) = 6
    /\ log[5].ev = "hook"
    /\ log[6].ev = "wait"
    /\ log[6].delay = 100

\* C28: after the failure of attempt `retries`, the last one permitted,
\* shouldRetry is not consulted, onRetry is not called and no wait occurs; in
\* any session (retries >= 1) shouldRetry is consulted at most retries - 1
\* times, each time right after a failure and with the number of the attempt
\* that just failed
C28_NoConsultationAfterLastAttempt ==
    options.retries >= 1 =>
        /\ Cardinality(Events("pred")) <= options.retries - 1
        /\ predCalls = Cardinality(Events("pred"))
        /\ \A p \in Events("pred") :
              /\ p > 1
              /\ log[p - 1].ev = "fail"
              /\ log[p - 1].attempt = log[p].attempt
              /\ log[p].attempt = Cardinality({m \in Events("fn") : m < p})
        /\ \A n \in 1 .. Len(log) :
              log[n].attempt = options.retries => log[n].ev \in {"fn", "ok", "fail"}
        /\ \A f \in Events("fail") :
              log[f].attempt = options.retries =>
                  f = Len(log) /\ pc = "done" /\ exit = "exhausted" /\ dtimer # "armed"

\* the second of two attempts failed and the session returned at once; the
\* predicate had been consulted once, for the first failure
C28_Witness ==
    /\ exit = "exhausted"
    /\ options.retries = 2
    /\ predCalls = 1
    /\ Last(log).ev = "fail"
    /\ Last(log).attempt = 2
    /\ waits = 1

\* C29: the error field of a wrapper is looked at before the value is tested:
\* a wrapper with a truthy error fails the attempt with that error whatever
\* its data and whatever retryOnFalsy is; a wrapper without error and with data
\* null under retryOnFalsy true fails with FalsyResultError
C29_ErrorFieldFirst ==
    \A res \in arg : \A out \in ret :
        /\ (res.keyed /\ res.error # {}) =>
              ~out.ok /\ out.error = res.error
        /\ (res.keyed /\ res.error = {} /\ res.data = "null"
              /\ options.retryOnFalsy = "true") =>
              ~out.ok /\ out.error = {FalsyResultError}

\* a wrapper with data null and an error, under retryOnFalsy true, failed with
\* its error
C29_Witness ==
    /\ arg = {Wrapper("null", {HttpError(404)})}
    /\ options.retryOnFalsy = "true"
    /\ ret = {Failure(HttpError(404))}

\* C30: on success the value returned is the one fn produced: a bare result
\* unchanged, and for an object with a data or error key its data field only
\* (also when the object was not meant as a wrapper)
C30_ReturnedValue ==
    \A res \in arg : \A out \in ret :
        /\ out.ok =>
              out.value = IF res.keyed THEN res.data
                          ELSE CHOOSE v \in Val : res = BareResult(v)
        /\ (options.retryOnFalsy = "false" /\ res.error = {}) => out.ok

\* an object { data: null } came back as null, not as the object
C30_Witness ==
    /\ arg = {Wrapper("null", {})}
    /\ options.retryOnFalsy = "false"
    /\ ret = {Success("null")}

\* ------------------------------------------------------------------ C31
\* the attempts that failed by their deadline or by the operation-wide abort:
\* the one in flight whose race was settled that way, and the earlier ones
\* executeAttempt threw that error for
LostToTimerOrAbort ==
    {k \in Attempts :
        \/ /\ pc = "attempt"
           /\ k = i + 1
           /\ race.err \cap {TimeoutError, AbortError("Operation aborted.")} # {}
        \/ AttemptFailures(k) \cap {TimeoutError, AbortError("Operation aborted.")} # {}}

\* C31: an attempt has exactly one outcome, that of the racer that settled
\* first: a settled race keeps its settlement, executeAttempt returns or throws
\* at most once per attempt, and when the work of an attempt that failed by its
\* deadline or by the operation-wide abort settles later, nothing of the
\* session changes: no success, no further failure entry, the same result
C31_OneOutcomePerAttempt ==
    [][/\ (pc = "attempt" /\ pc' = "attempt" /\ race.st # "pending") => race' = race
       /\ \A k \in Attempts :
            Cardinality({n \in Events("ok") \cup Events("fail") :
                            log'[n].attempt = k}) <= 1
       /\ \A k \in LostToTimerOrAbort :
            (work[k] = "pending" /\ work'[k] = "settled") =>
                /\ UNCHANGED <<race, outcome, errors, result, pc, exit, log>>
                /\ k \in LostToTimerOrAbort']_vars

\* the first attempt timed out, its work settled afterwards, and the session
\* ended as failed with the timeout as the only failure of that attempt
C31_Witness ==
    /\ Failed
    /\ work[1] = "settled"
    /\ AttemptFailures(1) = {TimeoutError}
    /\ FailureList[1] = TimeoutError

\* ------------------------------------------------------------------ C32
\* C32: the wait, started while the operation-wide signal is aborted already,
\* fails at once with 'Delay aborted.' and sets no timer; started with a live
\* signal that is triggered before the timer fires, it fails with 'Delay
\* aborted.', and when its failure reaches retry() the timer is cleared and the
\* listener removed; when the timer fires first it completes normally, with
\* the listener removed
C32_CancellableDelay ==
    [][/\ (pc = "pred" /\ waits' = waits + 1 /\ options.hasSignal /\ aborted) =>
            /\ dtimer' = "none"
            /\ ~dlistener'
            /\ pc' = "done"
            /\ Last(errors') = AbortError("Delay aborted.")
       /\ (pc = "delay" /\ drace.st = "pending" /\ aborted' /\ ~aborted) =>
            drace' = Rejected(AbortError("Delay aborted."))
       /\ (pc = "delay" /\ drace.st = "rejected" /\ pc' # "delay") =>
            /\ dtimer' = "none"
            /\ ~dlistener'
            /\ pc' = "done"
            /\ Last(errors') = AbortError("Delay aborted.")
       /\ (pc = "delay" /\ drace.st = "resolved" /\ pc' # "delay") =>
            /\ dtimer = "fired"
            /\ ~dlistener'
            /\ exit' # "delayAborted"]_vars

\* ------------------------------------------------------------------ C33
\* waitForDelay fails with the abort of the operation-wide signal: its race
\* was settled by delayAbortListener, or the signal was already aborted when
\* it was called
WaitInterrupted ==
    \/ pc = "delay" /\ drace.st = "rejected" /\ pc' # "delay"
    \/ pc = "pred" /\ options.hasSignal /\ aborted /\ waits' = waits + 1

\* C33: when the wait after failed attempt k is interrupted by the abort of
\* the operation-wide signal, 'Delay aborted.' is appended after the failure
\* of attempt k, the session ends as failed with attempts = k, and fn is not
\* invoked again, neither in that step nor afterwards
C33_InterruptedWaitEnds ==
    [][/\ WaitInterrupted =>
            /\ pc' = "done"
            /\ result' = RetryFailure(errors', i + 1)
            /\ errors' = Append(errors, AbortError("Delay aborted."))
            /\ Len(errors) = i + 1
            /\ AttemptFailures(i + 1) = {errors[i + 1]}
            /\ calls' = calls
            /\ calls = i + 1
       /\ pc = "done" => calls' = calls /\ result' = result]_vars

\* the signal was triggered during the wait after the first of two attempts
C33_Witness ==
    /\ Failed
    /\ abortedAt = "delay"
    /\ maxAttempts = 2
    /\ result.attempts = 1
    /\ calls = 1
    /\ Len(FailureList) = 2
    /\ FailureList[2] = AbortError("Delay aborted.")

\* ------------------------------------------------------------------ C34
\* C34: the k-th invocation of fn is handed attempt number k and the signal of
\* a controller created for it: one that no earlier attempt had, that is not
\* aborted when fn is called (it is aborted in the same step only when fn
\* throws in the call and the finally block runs), while the signals of the
\* earlier attempts and the operation-wide signal are other objects, which the
\* creation leaves as they are and whose state it does not take over
C34_FreshSignalPerInvocation ==
    [][calls' # calls =>
          /\ calls' = calls + 1
          /\ log' = Append(log, Event("fn", calls', {}, 0, ""))
          /\ sig[calls'] = "none"
          /\ \A k \in 1 .. calls : sig[k] # "none" /\ sig'[k] = sig[k]
          /\ \/ sig'[calls'] = "live" /\ work'[calls'] = "pending"
             \/ sig'[calls'] = "aborted" /\ work'[calls'] = "threw"]_vars

\* fn has just been invoked for the second time, with a signal of its own,
\* after the signal of the first attempt was aborted; the work triggered the
\* operation-wide signal in that call
C34_Witness ==
    /\ pc = "attempt"
    /\ calls = 2
    /\ Last(log) = Event("fn", 2, {}, 0, "")
    /\ sig[1] = "aborted"
    /\ sig[2] = "live"
    /\ sig[3] = "none"
    /\ abortedAt = "call"
    /\ aborted

\* ------------------------------------------------------------------ C35
\* C35: on every result retry() returns, whichever return statement produced
\* it (success, attempts exhausted, predicate false, predicate threw, wait
\* aborted, aborted at the pre-attempt check), `attempts` is the number of
\* times fn was invoked in the session
C35_AttemptsCountInvocations ==
    pc = "done" =>
        /\ exit \in {"success", "exhausted", "predicateFalse", "predicateThrew",
                     "delayAborted", "precheck"}
        /\ result.attempts = calls
        /\ result.attempts = Cardinality(Events("fn"))

\* the signal was found aborted at the top of the second iteration: one
\* invocation, attempts = 1
C35_Witness ==
    /\ pc = "done"
    /\ exit = "precheck"
    /\ maxAttempts = 2
    /\ Cardinality(Events("fn")) = 1
    /\ result.attempts = 1

\* ------------------------------------------------------------------ C36
\* C36: with retries >= 1, the failure list of a failed result has `attempts`
\* or `attempts` + 1 entries, and when it has one more, the last entry is an
\* AbortError (of the pre-attempt check or of the wait) or what shouldRetry
\* threw
C36_FailureListBounds ==
    (Failed /\ maxAttempts >= 1) =>
        /\ result.attempts <= Len(FailureList)
        /\ Len(FailureList) <= result.attempts + 1
        /\ Len(FailureList) = result.attempts + 1 =>
              /\ exit \in {"precheck", "delayAborted", "predicateThrew"}
              /\ Last(FailureList) \in {AbortError("The operation was aborted."),
                                        AbortError("Delay aborted."),
                                        PredicateError}
        /\ Len(FailureList) = result.attempts =>
              exit \in {"exhausted", "predicateFalse"}

\* one attempt failed, then the signal was found aborted at the top of the
\* loop: two entries for one attempt
C36_Witness ==
    /\ Failed
    /\ maxAttempts >= 1
    /\ result.attempts = 1
    /\ FailureList = <<HttpError(503), AbortError("The operation was aborted.")>>

\* ------------------------------------------------------------------ C37
\* C37: the delay handed to onRetry for attempt k is the duration of the wait
\* that follows: calculateDelay is called once per failed attempt, so that
\* with jitter the hook's delay, the argument of waitForDelay and the duration
\* of the timer are one number
C37_HookDelayIsWaitDuration ==
    /\ \A n \in Events("wait") :
          options.onRetry = "present" =>
              /\ n > 1
              /\ log[n - 1].ev = "hook"
              /\ log[n - 1].attempt = log[n].attempt
              /\ log[n - 1].delay = log[n].delay
    /\ pc = "delay" =>
          /\ dtimer # "none"
          /\ Last(log).ev = "wait"
          /\ delayMs = Last(log).delay

\* with full jitter the draw gave a delay strictly between 0 and the 100 ms of
\* the policy: onRetry was told that number and the timer of the wait runs for
\* it
C37_Witness ==
    /\ options.jitter = "full"
    /\ options.onRetry = "present"
    /\ pc = "delay"
    /\ dtimer = "armed"
    /\ delayMs > 0
    /\ delayMs < Min(options.delay, options.maxDelay)
    /\ HookDelays = <<delayMs>>
    /\ WaitDelays = <<delayMs>>

\* ------------------------------------------------------------------ C39
\* C39: attemptTimeout: 0 is like no attemptTimeout: no attemptTimer is ever
\* set, no attempt fails with TimeoutError, and an attempt whose work does not
\* settle stays in flight until the operation-wide signal ends it
C39_ZeroTimeoutIsNone ==
    options.attemptTimeout \in {{0}, {}} =>
        /\ atimer = "none"
        /\ \A k \in Attempts : TimeoutError \notin AttemptFailures(k)
        /\ \A n \in 1 .. Len(errors) : errors[n] # TimeoutError
        /\ race.err # {TimeoutError}
        /\ \A k \in Attempts :
              (work[k] = "pending" /\ k \in Finished) =>
                  AttemptFailures(k) = {AbortError("Operation aborted.")}

\* attemptTimeout is 0; the work of the first attempt is pending, no timer
\* runs, and only the operation-wide signal can end the attempt
C39_Witness ==
    /\ options.attemptTimeout = {0}
    /\ pc = "attempt"
    /\ race.st = "pending"
    /\ work[1] = "pending"
    /\ atimer = "none"
    /\ alistener

\* ------------------------------------------------------------------ C40
\* C40: with retries = 0 retry() returns at once { data: null, errors: [],
\* attempts: 0 }: the loop body is not entered, so that fn is not invoked and
\* the operation-wide signal is not looked at, aborted or not
C40_ZeroRetriesReturnsEmpty ==
    [][(pc = "init" /\ maxAttempts = 0) =>
          /\ pc' = "done"
          /\ result' = [data |-> "null", errors |-> {<<>>}, attempts |-> 0]
          /\ calls' = 0
          /\ log' = <<>>
          /\ \A k \in Attempts : sig'[k] = "none" /\ work'[k] = "idle"
          /\ aborted' = aborted]_vars

\* retries is 0 and the signal had been aborted before the call: the result
\* is empty all the same, without the AbortError of the pre-attempt check
C40_Witness ==
    /\ maxAttempts = 0
    /\ options.hasSignal
    /\ abortedAt = "before"
    /\ pc = "done"
    /\ result = [data |-> "null", errors |-> {<<>>}, attempts |-> 0]
    /\ calls = 0

\* ------------------------------------------------------------------ C38
\* C38 (the part that is a property of one implementation): when shouldRetry
\* is consulted for attempt k, the signal of attempt k has been aborted
C38_SignalCancelledBeforePredicate ==
    \A n \in Events("pred") : sig[log[n].attempt] = "aborted"

====
